---- MODULE Spec2Model ----
(***************************************************************************)
(* A model of snow.py: the Snow field (new_flakes, moved_flakes,           *)
(* update_flakes, render) and the two threads started by main():           *)
(* snow_simulation and user_input_handler, which share the Snow object and *)
(* the closure variables running and display_help.                         *)
(*                                                                         *)
(* A flake is a pair <<row, col>>; the flake list is a sequence, as in the *)
(* source.  A line of input is a sequence of one-character strings, and   *)
(* the line input() returns is the parameter of the step that reads it.    *)
(* A thread's position is the statement it is about to execute; a thread   *)
(* killed by an uncaught exception has the exception's name as position.   *)
(* update_flakes is one step: it reads intensity once (in new_flakes) and   *)
(* nothing else that the other thread writes.  framesSinceStop is a        *)
(* history variable: the frames rendered since the stop flag was set,      *)
(* counted up to 2.                                                        *)
(***************************************************************************)
EXTENDS Integers, Sequences, FiniteSets

VARIABLES height, width, intensity, flakes,
          running, display_help, tick_rate_ms,
          simPc, inputPc, framesSinceStop

vars == <<height, width, intensity, flakes, running, display_help,
          tick_rate_ms, simPc, inputPc, framesSinceStop>>

(* ------------------------------ bounds -------------------------------- *)

\* The scenes the program is started with: at most MaxWidth columns and at
\* most MaxArea cells.
MaxWidth == 10
MaxArea == 20
\* The scenes of a Snow object driven on its own, tick after tick: at most
\* FieldMaxHeight rows, FieldMaxWidth columns and FieldMaxArea cells.
FieldMaxHeight == 4
FieldMaxWidth == 2
FieldMaxArea == 8
\* The widest scene new_flakes is called on as a function of its inputs.
SpawnMaxWidth == 20
\* The longest list moved_flakes is called on as a function of its input.
MoveMaxLen == 2

(* ------------------------- program constants -------------------------- *)

\* --tick_rate-ms default
DefaultTickRateMs == 100
\* range(0, 10) of --intensity: the first value CheckRange rejects
IntensityRangeEnd == 10
\* the cap of the "i" command
MaxIntensity == 10
\* the divisor of new_flakes
Percent == 100

Min(a, b) == IF a < b THEN a ELSE b
Max(a, b) == IF a > b THEN a ELSE b

(* ------------------------------- Snow --------------------------------- *)

\* Mutant of NumFlakes: round() instead of int().
NumFlakesRounded(w, i) == (w * i + 50) \div 100

\* int(width * intensity / 100): int() truncates toward zero.
NumFlakes(w, i) ==
    IF w * i >= 0 THEN (w * i) \div Percent ELSE -((-(w * i)) \div Percent)

\* random.sample(range(n), k): every list of k pairwise distinct elements of
\* range(n); it raises ValueError when k < 0 or k > n.
SampleRaises(n, k) == k < 0 \/ k > n

\* Mutant of Sample: the population is range(n + 1), as with an inclusive
\* upper bound.
SampleInclusive(n, k) ==
    { s \in [1..k -> 0..n] : \A a, b \in 1..k : a # b => s[a] # s[b] }

\* Mutant of Sample: columns drawn with replacement.
SampleWithReplacement(n, k) == [1..k -> 0..(n - 1)]

Sample(n, k) ==
    { s \in [1..k -> 0..(n - 1)] : \A a, b \in 1..k : a # b => s[a] # s[b] }

\* new_flakes: what the call can return.
NewFlakes(w, i) ==
    { [j \in 1..NumFlakes(w, i) |-> <<0, cols[j]>>] : cols \in Sample(w, NumFlakes(w, i)) }

NewFlakesRaises(w, i) == SampleRaises(w, NumFlakes(w, i))

\* Mutant of Shimmy: a flake can move two columns in a tick.
ShimmyWide == {-2, -1, 0, 1, 2}

\* random.choice([-1, 0, 1])
Shimmy == {-1, 0, 1}

\* a list without the flakes that repeat an earlier flake of it
RECURSIVE Merged(_)
Merged(fl) ==
    IF fl = <<>> THEN <<>>
    ELSE LET rest == Merged(SubSeq(fl, 1, Len(fl) - 1))
             last == fl[Len(fl)]
         IN IF \E j \in 1..Len(rest) : rest[j] = last THEN rest
            ELSE Append(rest, last)

\* Mutant of MovedFlakes: the flakes are kept as a set of cells, so two that
\* land on the same cell become one.
MovedFlakesMerged(fl) ==
    { Merged([j \in 1..Len(fl) |-> <<fl[j][1] + 1, fl[j][2] + d[j]>>]) :
        d \in [1..Len(fl) -> {-1, 0, 1}] }

\* moved_flakes: what the call can return.
MovedFlakes(fl) ==
    { [j \in 1..Len(fl) |-> <<fl[j][1] + 1, fl[j][2] + d[j]>>] :
        d \in [1..Len(fl) -> Shimmy] }

\* Mutant of InScene: a flake that has left the columns is dropped too.
InSceneAndColumns(f, h) == f[1] < h /\ 0 <= f[2] /\ f[2] < width

\* Mutant of InScene: the last row of the scene is dropped too.
InSceneTooStrict(f, h) == f[1] < h - 1

\* Mutant of InScene: the row just below the scene is kept.
InSceneOffByOne(f, h) == f[1] <= h

\* the filter of update_flakes' last line
InScene(f, h) == f[1] < h

\* Mutant of KeepInScene: nothing is removed.
KeepAll(fl, h) == fl

RECURSIVE KeepInScene(_, _)
KeepInScene(fl, h) ==
    IF fl = <<>> THEN <<>>
    ELSE IF InScene(Head(fl), h) THEN <<Head(fl)>> \o KeepInScene(Tail(fl), h)
         ELSE KeepInScene(Tail(fl), h)

\* A Python list index i into a list of length n: valid for -n <= i < n, a
\* negative one counting from the end; anything else raises IndexError.
IndexValid(i, n) == -n <= i /\ i < n
PyIndex(i, n) == IF i < 0 THEN n + i ELSE i

\* render: the flakes that pass its test, and so are written to the grid.
Drawn(f, h, w) == f[1] < h /\ f[2] < w

RenderRaises(fl, h, w) ==
    \E j \in 1..Len(fl) :
        /\ Drawn(fl[j], h, w)
        /\ ~(IndexValid(fl[j][1], h) /\ IndexValid(fl[j][2], w))

\* the grid cells (0-based row, column) render sets to "*"
Marked(fl, h, w) ==
    { <<PyIndex(fl[j][1], h), PyIndex(fl[j][2], w)>> :
        j \in { k \in 1..Len(fl) : Drawn(fl[k], h, w) } }

\* render's return value before the join: the lines, top to bottom.
Render(fl, h, w) ==
    [r \in 1..h |-> [c \in 1..w |->
        IF <<r - 1, c - 1>> \in Marked(fl, h, w) THEN "*" ELSE " "]]

(* ------------------------------- main --------------------------------- *)

\* The lines the user types.
Lines == { <<"x">>, <<"i">>, <<"d">>, <<"h">>, <<"0">>, <<"9">>,
           <<>>, <<"1", "2">>, <<"q">> }

DigitChars == <<"0", "1", "2", "3", "4", "5", "6", "7", "8", "9">>

\* Mutant of IsDigitLine: the length test is missing, so re.match accepts any
\* line that starts with a digit.
IsDigitLineAnyLength(line) ==
    Len(line) >= 1 /\ \E k \in 1..10 : DigitChars[k] = line[1]

\* len(user_input) == 1 and re.match(r"[0-9]", user_input)
IsDigitLine(line) == Len(line) = 1 /\ \E k \in 1..10 : DigitChars[k] = line[1]

\* int(user_input) of a one-digit line
IntOf(line) == (CHOOSE k \in 1..10 : DigitChars[k] = line[1]) - 1

Init ==
    /\ width \in 1..MaxWidth
    /\ height \in 1..MaxArea
    /\ height * width <= MaxArea
    /\ intensity \in 0..(IntensityRangeEnd - 1)
    /\ flakes = <<>>
    /\ running = TRUE
    /\ display_help = TRUE
    /\ tick_rate_ms = DefaultTickRateMs
    /\ simPc = "while"
    /\ inputPc = "while"
    /\ framesSinceStop = 0

\* Mutant of SimWhile: the loop does not test the flag.
SimWhileTrue ==
    /\ simPc = "while"
    /\ simPc' = "update"
    /\ UNCHANGED <<height, width, intensity, flakes, running, display_help,
                   tick_rate_ms, inputPc, framesSinceStop>>

\* snow_simulation: the test of `while running`.
SimWhile ==
    /\ simPc = "while"
    /\ simPc' = IF running THEN "update" ELSE "done"
    /\ UNCHANGED <<height, width, intensity, flakes, running, display_help,
                   tick_rate_ms, inputPc, framesSinceStop>>

\* update_flakes: move, add the new flakes, drop the rows below the scene.
\* When new_flakes raises, the moved list has already been stored.
UpdateFlakes(next, raised) ==
    \E moved \in MovedFlakes(flakes) :
        IF NewFlakesRaises(width, intensity)
        THEN /\ flakes' = moved
             /\ simPc' = raised
        ELSE \E new \in NewFlakes(width, intensity) :
                /\ flakes' = KeepInScene(moved \o new, height)
                /\ simPc' = next

\* Mutant of SimUpdate: the simulation thread clamps intensity to the range
\* of the command line before it spawns.
SimUpdateClampsIntensity ==
    /\ simPc = "update"
    /\ UpdateFlakes("render", "ValueError")
    /\ intensity' = Min(intensity, IntensityRangeEnd - 1)
    /\ UNCHANGED <<height, width, running, display_help,
                   tick_rate_ms, inputPc, framesSinceStop>>

SimUpdate ==
    /\ simPc = "update"
    /\ UpdateFlakes("render", "ValueError")
    /\ UNCHANGED <<height, width, intensity, running, display_help,
                   tick_rate_ms, inputPc, framesSinceStop>>

\* clear, print(snow.render()), the help text if display_help, then sleep.
SimRender ==
    /\ simPc = "render"
    /\ IF RenderRaises(flakes, height, width)
       THEN /\ simPc' = "IndexError"
            /\ UNCHANGED framesSinceStop
       ELSE /\ simPc' = "while"
            /\ framesSinceStop' = IF running THEN 0 ELSE Min(framesSinceStop + 1, 2)
    /\ UNCHANGED <<height, width, intensity, flakes, running, display_help,
                   tick_rate_ms, inputPc>>

\* Mutant of InputWhile: the loop does not test the flag.
InputWhileTrue ==
    /\ inputPc = "while"
    /\ inputPc' = "input"
    /\ UNCHANGED <<height, width, intensity, flakes, running, display_help,
                   tick_rate_ms, simPc, framesSinceStop>>

\* user_input_handler: the test of `while running`.
InputWhile ==
    /\ inputPc = "while"
    /\ inputPc' = IF running THEN "input" ELSE "done"
    /\ UNCHANGED <<height, width, intensity, flakes, running, display_help,
                   tick_rate_ms, simPc, framesSinceStop>>

\* input() raises EOFError at the end of the input; nothing catches it.
InputEOF ==
    /\ inputPc = "input"
    /\ inputPc' = "EOFError"
    /\ UNCHANGED <<height, width, intensity, flakes, running, display_help,
                   tick_rate_ms, simPc, framesSinceStop>>

\* Mutant of Match: "i" and "d" do not clamp.
MatchNoClamp(line) ==
    IF line = <<"x">> THEN
        /\ running' = FALSE
        /\ UNCHANGED <<intensity, display_help>>
    ELSE IF line = <<"i">> THEN
        /\ intensity' = intensity + 1
        /\ UNCHANGED <<running, display_help>>
    ELSE IF line = <<"d">> THEN
        /\ intensity' = intensity - 1
        /\ UNCHANGED <<running, display_help>>
    ELSE IF line = <<"h">> THEN
        /\ display_help' = ~display_help
        /\ UNCHANGED <<running, intensity>>
    ELSE IF IsDigitLine(line) THEN
        /\ intensity' = IntOf(line)
        /\ UNCHANGED <<running, display_help>>
    ELSE UNCHANGED <<running, intensity, display_help>>

\* the match statement: the first case that matches.
Match(line) ==
    IF line = <<"x">> THEN
        /\ running' = FALSE
        /\ UNCHANGED <<intensity, display_help>>
    ELSE IF line = <<"i">> THEN
        /\ intensity' = Min(intensity + 1, MaxIntensity)
        /\ UNCHANGED <<running, display_help>>
    ELSE IF line = <<"d">> THEN
        /\ intensity' = Max(intensity - 1, 0)
        /\ UNCHANGED <<running, display_help>>
    ELSE IF line = <<"h">> THEN
        /\ display_help' = ~display_help
        /\ UNCHANGED <<running, intensity>>
    ELSE IF IsDigitLine(line) THEN
        /\ intensity' = IntOf(line)
        /\ UNCHANGED <<running, display_help>>
    ELSE UNCHANGED <<running, intensity, display_help>>

\* input() returns line and the match statement runs on it.
InputCommand(line) ==
    /\ inputPc = "input"
    /\ Match(line)
    /\ inputPc' = "while"
    /\ UNCHANGED <<height, width, flakes, tick_rate_ms, simPc, framesSinceStop>>

InputRead == \E line \in Lines : InputCommand(line)

SimNext == SimWhile \/ SimUpdate \/ SimRender
InputNext == InputWhile \/ InputRead \/ InputEOF

Next == SimNext \/ InputNext

Spec == Init /\ [][Next]_vars

\* Both threads are scheduled by the operating system and time.sleep
\* returns, so a thread that can take a step of its own takes it.  input()
\* may block for ever: no fairness for InputRead and InputEOF.
FairSpec == Spec /\ WF_vars(SimNext) /\ WF_vars(InputWhile)

(* ----------------------- the Snow object alone ------------------------ *)

\* Snow(height, width, intensity) takes any integers; only main() keeps
\* intensity within 0..10.
FieldIntensities == {0, 50, 200}

FieldInit ==
    /\ height \in 1..FieldMaxHeight
    /\ width \in 1..FieldMaxWidth
    /\ height * width <= FieldMaxArea
    /\ intensity \in FieldIntensities
    /\ flakes = <<>>
    /\ running = TRUE
    /\ display_help = TRUE
    /\ tick_rate_ms = DefaultTickRateMs
    /\ simPc = "update"
    /\ inputPc = "unstarted"
    /\ framesSinceStop = 0

\* a call of update_flakes
FieldUpdate ==
    /\ simPc = "update"
    /\ UpdateFlakes("render", "ValueError")
    /\ UNCHANGED <<height, width, intensity, running, display_help,
                   tick_rate_ms, inputPc, framesSinceStop>>

\* a call of render
FieldRender ==
    /\ simPc = "render"
    /\ simPc' = IF RenderRaises(flakes, height, width) THEN "IndexError" ELSE "update"
    /\ UNCHANGED <<height, width, intensity, flakes, running, display_help,
                   tick_rate_ms, inputPc, framesSinceStop>>

FieldNext == FieldUpdate \/ FieldRender

SpecField == FieldInit /\ [][FieldNext]_vars

(* ---------------------- new_flakes on its inputs ---------------------- *)

SpawnInit ==
    /\ height = 1
    /\ width \in 1..SpawnMaxWidth
    /\ intensity \in 0..MaxIntensity
    /\ flakes = <<>>
    /\ running = TRUE
    /\ display_help = TRUE
    /\ tick_rate_ms = DefaultTickRateMs
    /\ simPc = "new_flakes"
    /\ inputPc = "unstarted"
    /\ framesSinceStop = 0

\* flakes = snow.new_flakes()
SpawnCall ==
    /\ simPc = "new_flakes"
    /\ IF NewFlakesRaises(width, intensity)
       THEN /\ simPc' = "ValueError"
            /\ UNCHANGED flakes
       ELSE /\ simPc' = "returned"
            /\ flakes' \in NewFlakes(width, intensity)
    /\ UNCHANGED <<height, width, intensity, running, display_help,
                   tick_rate_ms, inputPc, framesSinceStop>>

SpecSpawn == SpawnInit /\ [][SpawnCall]_vars

(* --------------------- moved_flakes on its input ---------------------- *)

\* The static method takes any list of flakes: here the lists of at most
\* MoveMaxLen flakes on the cells of the largest scene of SpecField.
MoveInit ==
    /\ height = FieldMaxHeight
    /\ width = FieldMaxWidth
    /\ intensity = 0
    /\ \E n \in 0..MoveMaxLen :
         flakes \in [1..n -> (0..(FieldMaxHeight - 1)) \X (0..(FieldMaxWidth - 1))]
    /\ running = TRUE
    /\ display_help = TRUE
    /\ tick_rate_ms = DefaultTickRateMs
    /\ simPc = "moved_flakes"
    /\ inputPc = "unstarted"
    /\ framesSinceStop = 0

\* flakes = Snow.moved_flakes(flakes)
MoveCall ==
    /\ simPc = "moved_flakes"
    /\ simPc' = "returned"
    /\ flakes' \in MovedFlakes(flakes)
    /\ UNCHANGED <<height, width, intensity, running, display_help,
                   tick_rate_ms, inputPc, framesSinceStop>>

SpecMove == MoveInit /\ [][MoveCall]_vars

(* ------------------------------ claims -------------------------------- *)

\* the rows and columns of the flakes of a list
FlakeSet(fl) == { fl[j] : j \in 1..Len(fl) }

\* a thread that has left its loop, by the loop's test or by an exception
SimEnded == simPc \in {"done", "IndexError", "ValueError"}

\* C1: end-of-input at the blocking read ends the Input Loop as "x" does:
\* once input() has met the end of the input the stop flag is true (so that
\* the Simulation Loop stops too).
C1_EndOfInputStops == inputPc = "EOFError" => ~running

\* C2: whenever update_flakes has completed, every flake of the collection
\* has row < height, whatever commands were interleaved with the ticks.
C2_RowsBelowHeight ==
    simPc # "ValueError" => \A f \in FlakeSet(flakes) : f[1] < height

\* a tick has completed and has left a flake on every row of a scene of
\* more than one row
C2_Witness ==
    /\ simPc = "render"
    /\ height > 1
    /\ { f[1] : f \in FlakeSet(flakes) } = 0..(height - 1)

\* C3: render marks exactly the cells of the flakes with 0 <= row < height
\* and 0 <= col < width, and a flake whose column is outside [0, width)
\* marks no cell and raises no error.
C3_RenderMarksVisibleOnly ==
    simPc = "render" =>
        /\ ~RenderRaises(flakes, height, width)
        /\ Marked(flakes, height, width) =
             { f \in FlakeSet(flakes) :
                 0 <= f[1] /\ f[1] < height /\ 0 <= f[2] /\ f[2] < width }

\* C4: for every field reached by ticks from the empty field, render
\* completes and returns exactly height lines of exactly width characters.
C4_RenderShape ==
    simPc = "render" =>
        /\ ~RenderRaises(flakes, height, width)
        /\ Len(Render(flakes, height, width)) = height
        /\ \A r \in 1..height : Len(Render(flakes, height, width)[r]) = width

\* a step of the Input Loop that reads line and executes the match
\* statement on it
Processes(line) == InputCommand(line)

\* C5: intensity always stays in 0..10; "i" sets it to min(intensity+1, 10),
\* "d" to max(intensity-1, 0), and a single digit to that digit.
C5_IntensityRange ==
    /\ [](intensity \in 0..10)
    /\ [][ /\ Processes(<<"i">>) =>
               intensity' = (IF intensity + 1 < 10 THEN intensity + 1 ELSE 10)
           /\ Processes(<<"d">>) =>
               intensity' = (IF intensity - 1 > 0 THEN intensity - 1 ELSE 0)
           /\ Processes(<<"0">>) => intensity' = 0
           /\ Processes(<<"9">>) => intensity' = 9 ]_vars

\* a command has just been processed and intensity is 10, which only "i"
\* reaches: the program starts below 10 and a digit sets at most 9
C5_Witness == inputPc = "while" /\ intensity = 10

C7_SpawnNeverFails ==
    /\ simPc # "ValueError"
    /\ Cardinality({ j \in 1..Len(flakes) : flakes[j][1] = 0 }) <= width

\* C8: each command changes only its own piece of the shared state: "x" the
\* stop flag, "i", "d" and a digit intensity, "h" the help flag (which it
\* negates), any other line nothing, after which the loop goes back to its
\* test; no step of the Input Loop changes flakes, height, width or the tick
\* interval.
C8_CommandFrames ==
    [][ /\ Processes(<<"x">>) => UNCHANGED <<intensity, display_help>>
        /\ \A line \in {<<"i">>, <<"d">>, <<"0">>, <<"9">>} :
             Processes(line) => UNCHANGED <<running, display_help>>
        /\ Processes(<<"h">>) =>
             display_help' = ~display_help /\ UNCHANGED <<running, intensity>>
        /\ \A line \in {<<>>, <<"1", "2">>, <<"q">>} :
             Processes(line) =>
                /\ UNCHANGED <<running, intensity, display_help>>
                /\ inputPc' = "while"
        /\ inputPc' # inputPc =>
             UNCHANGED <<flakes, height, width, tick_rate_ms>> ]_vars

\* "i", "h" and "x" have been processed while flakes were falling
C8_Witness ==
    /\ inputPc = "while"
    /\ intensity = 10
    /\ ~display_help
    /\ ~running
    /\ flakes # <<>>

\* C9: after the stop flag becomes true the Simulation Loop renders at most
\* one more frame, never starts a tick after it has seen the flag true, and
\* ends.
C9_StopsWithinOneFrame ==
    /\ [](framesSinceStop <= 1)
    /\ [][simPc = "while" /\ ~running => simPc' # "update"]_vars
    /\ (~running ~> SimEnded)

\* the Simulation Loop has ended after one frame rendered with the flag set
C9_Witness == simPc = "done" /\ framesSinceStop = 1

\* C10: under fair scheduling, once "x" has been processed the Input Loop
\* reads no further line and both loops reach their terminal state.
C10_BothLoopsEnd ==
    /\ [](~running => inputPc \in {"while", "done"})
    /\ (~running ~> (inputPc = "done" /\ SimEnded))

\* both loops have ended after an "x"
C10_Witness == inputPc = "done" /\ simPc = "done" /\ ~running

\* C11: moved_flakes maps every flake (row, col) to exactly one flake
\* (row+1, col+d) with d in {-1, 0, +1}, so the list keeps its length, also
\* when two flakes land on the same cell.
C11_MoveKeepsCount ==
    [][ simPc = "moved_flakes" /\ simPc' = "returned" =>
          /\ Len(flakes') = Len(flakes)
          /\ \A j \in 1..Len(flakes) :
                /\ flakes'[j][1] = flakes[j][1] + 1
                /\ flakes'[j][2] - flakes[j][2] \in {-1, 0, 1} ]_vars

\* moved_flakes has returned two flakes on the same cell
C11_Witness ==
    simPc = "returned" /\ Len(flakes) = 2 /\ flakes[1] = flakes[2]

\* the number of flakes of a list on row r
RowCount(fl, r) == Cardinality({ j \in 1..Len(fl) : fl[j][1] = r })

\* a step that is a completed call of update_flakes
TickStep == simPc = "update" /\ simPc' = "render"

\* C12: a tick moves every flake of a row below height - 1 to the next row,
\* whatever its column, and removes exactly the flakes of row height - 1:
\* a flake at row r survives height - 1 - r further ticks and is removed by
\* the tick after that.
C12_RemovedAtBottomOnly ==
    [][ TickStep =>
          /\ \A r \in 1..(height - 1) :
                RowCount(flakes', r) = RowCount(flakes, r - 1)
          /\ \A j \in 1..Len(flakes') : flakes'[j][1] < height
          /\ Len(flakes') =
                Len(flakes) - RowCount(flakes, height - 1) + RowCount(flakes', 0) ]_vars

\* a flake outside the columns has survived to the last row of a scene of
\* at least three rows
C12_Witness ==
    /\ simPc = "render"
    /\ height >= 3
    /\ \E j \in 1..Len(flakes) :
         /\ flakes[j][1] = height - 1
         /\ (flakes[j][2] < 0 \/ flakes[j][2] >= width)

\* how many columns col lies outside [0, width): 0 inside
Outside(col) ==
    IF col < 0 THEN -col ELSE IF col >= width THEN col - width + 1 ELSE 0

\* The list is in order of age and update_flakes keeps the order, so a tick
\* drops the first Dropped flakes and flake j of the new list is flake
\* j + Dropped of the old one, for j up to Len(flakes) - Dropped.
Dropped == RowCount(flakes, height - 1)

\* C13 as stated: a flake whose column has left [0, width) is still outside
\* [0, width) after every later tick that keeps it.
C13_NeverReturns ==
    [][ TickStep =>
          \A j \in 1..(Len(flakes) - Dropped) :
             Outside(flakes[j + Dropped][2]) > 0 => Outside(flakes'[j][2]) > 0 ]_vars

\* C13 as amended: a tick changes how far a flake is outside [0, width) by
\* at most 1, so a flake d columns outside stays outside for the next
\* d - 1 ticks; and a flake one column outside can be back inside after
\* the next tick.
C13_ReturnsNoFasterThanItLeft ==
    /\ [][ TickStep =>
             \A j \in 1..(Len(flakes) - Dropped) :
                /\ flakes'[j][1] = flakes[j + Dropped][1] + 1
                /\ Outside(flakes'[j][2]) >= Outside(flakes[j + Dropped][2]) - 1
                /\ Outside(flakes'[j][2]) <= Outside(flakes[j + Dropped][2]) + 1 ]_vars
    /\ [](\A j \in 1..Len(flakes) :
             Outside(flakes[j][2]) = 1 =>
                \E moved \in MovedFlakes(flakes) : Outside(moved[j][2]) = 0)

\* after a tick a flake is one column to the left of the scene, with a row
\* to fall before it is removed
C13_Witness ==
    /\ simPc = "render"
    /\ \E j \in 1..Len(flakes) : flakes[j][2] = -1 /\ flakes[j][1] < height - 1

C15_SingleWriter ==
    [][ /\ (running' # running \/ display_help' # display_help
                \/ intensity' # intensity) =>
              /\ inputPc = "input" /\ inputPc' = "while"
              /\ UNCHANGED <<simPc, flakes>>
        /\ flakes' # flakes =>
              /\ simPc = "update" /\ simPc' = "render"
              /\ UNCHANGED <<inputPc, running, display_help, intensity>> ]_vars

\* both threads are inside their loops and each has written its side: the
\* help flag is off and flakes are falling
C15_Witness ==
    /\ simPc = "render"
    /\ inputPc = "input"
    /\ ~display_help
    /\ flakes # <<>>

\* C16: the stop flag only goes from not stopped to stopped: no step of
\* either loop sets running again, and no line is read or processed once
\* it is false.
C16_StopIsFinal ==
    [][ /\ ~running => ~running'
        /\ ~running => inputPc' \notin {"input", "EOFError"}
        /\ ~running => \A line \in Lines : ~Processes(line) ]_vars

\* the flag is set and the Input Loop has ended while the Simulation Loop
\* is still in the iteration it had begun
C16_Witness == ~running /\ inputPc = "done" /\ simPc = "render"

\* the tick in the order of update_flakes' docstring: move, remove the
\* flakes that fell out of the bottom, then introduce the new flakes
DocumentedUpdate(moved, new) == KeepInScene(moved, height) \o new

\* the tick in the order of update_flakes' code: move, introduce, remove
ImplementedUpdate(moved, new) == KeepInScene(moved \o new, height)

\* C17: for every positive height the implemented order of a tick (move,
\* add, remove rows >= height) gives the same list as the documented order
\* (move, remove, add): the flakes a tick spawns are not removed by it.
C17_OrdersAgree ==
    (simPc = "update" /\ ~NewFlakesRaises(width, intensity)) =>
        \A moved \in MovedFlakes(flakes) :
            \A new \in NewFlakes(width, intensity) :
                ImplementedUpdate(moved, new) = DocumentedUpdate(moved, new)

\* a tick is about to remove a flake of the last row and to spawn one
C17_Witness ==
    /\ simPc = "update"
    /\ RowCount(flakes, height - 1) > 0
    /\ ~NewFlakesRaises(width, intensity)
    /\ NumFlakes(width, intensity) > 0

\* C18: after every tick every flake (row, col) has 0 <= row < height and
\* -row <= col <= width - 1 + row; so a column below -width, on which
\* render's grid indexing fails, takes height > width + 1.
C18_ColumnCone ==
    /\ \A j \in 1..Len(flakes) :
          /\ 0 <= flakes[j][1] /\ flakes[j][1] < height
          /\ -flakes[j][1] <= flakes[j][2]
          /\ flakes[j][2] <= width - 1 + flakes[j][1]
    /\ (\E j \in 1..Len(flakes) : flakes[j][2] < -width) => height > width + 1
    /\ RenderRaises(flakes, height, width) => height > width + 1

\* after a tick a flake is at a column below -width
C18_Witness ==
    simPc = "render" /\ \E j \in 1..Len(flakes) : flakes[j][2] < -width

\* C19: the flake list does not grow without bound: while intensity stays
\* in 0..10 it holds at most height * floor(width * 10 / 100) flakes, at
\* most floor(width * 10 / 100) of them on any one row.
C19_FlakesBounded ==
    /\ Len(flakes) <= height * ((width * 10) \div 100)
    /\ \A r \in 0..(height - 1) : RowCount(flakes, r) <= (width * 10) \div 100

\* the list is full: floor(width * 10 / 100) flakes on each of two rows
C19_Witness ==
    /\ simPc = "while"
    /\ height = 2
    /\ (width * 10) \div 100 >= 1
    /\ Len(flakes) = height * ((width * 10) \div 100)

====
